---- MODULE Spec2Model ----
(***************************************************************************)
(* A model of asciigraf.graph_from_ascii (src/asciigraf/asciigraf.py).     *)
(*                                                                         *)
(* A diagram is the list of its rows (network_string.split("\n")), a row   *)
(* is a sequence of one-character strings.  A position is Point(x, y),     *)
(* x the zero-based column and y the zero-based row.  The passes of        *)
(* graph_from_ascii are the steps of the state machine: the label patcher  *)
(* (one step per label character), the sort of the edge characters, the    *)
(* tracing loop (one step per edge character), and the assembly of the     *)
(* graph (one step per traced edge, then the attribute dictionaries).      *)
(***************************************************************************)
EXTENDS Integers, Sequences, FiniteSets, TLC

VARIABLES
    scenario,               \* the drawing the input was built from (ghost)
    network_string,         \* the input, as its rows
    pc,                     \* "patch", "trace", "assemble", "done"
    edge_chars,             \* Point -> glyph
    left,                   \* the local `left` of the label patcher
    patch_i,                \* index of the next label character to patch
    edge_order,             \* the keys of edge_chars after sorted()
    trace_i,                \* index of the next edge character to trace
    edge_char_to_edge_map,  \* Point -> index into edges
    edges,                  \* sequence of [points, nodes]
    check_i,                \* index of the next edge to validate
    graph_edges,            \* node lists handed to add_edge, in order
    length_attr,            \* the "length" values: node tuple -> length
    label_attr,             \* the "label" values: node tuple -> label
    result,                 \* "none", "graph", "TooFewNodesOnEdge", ...
    raised_edge             \* the edge handed to the raised exception

vars == <<scenario, network_string, pc, edge_chars, left, patch_i, edge_order,
          trace_i, edge_char_to_edge_map, edges, check_i, graph_edges,
          length_attr, label_attr, result, raised_edge>>

-----------------------------------------------------------------------------
(* Bounds of the input families.                                           *)

MaxRun == 3
MaxLabel == 2
MaxArm == 2

-----------------------------------------------------------------------------
(* Point                                                                   *)

Point(x, y) == [x |-> x, y |-> y]

PointAdd(p, q) == Point(p.x + q.x, p.y + q.y)

PointLt(p, q) == p.y < q.y \/ (~(p.y > q.y) /\ p.x < q.x)

-----------------------------------------------------------------------------
(* Finite maps (dict / OrderedDict) as functions.                          *)

EmptyMap == [p \in {} |-> ""]

Get(map, key, default) == IF key \in DOMAIN map THEN map[key] ELSE default

Put(map, key, value) ==
    [k \in DOMAIN map \cup {key} |-> IF k = key THEN value ELSE map[k]]

Update(map, other) ==
    [k \in DOMAIN map \cup DOMAIN other |->
        IF k \in DOMAIN other THEN other[k] ELSE map[k]]

RECURSIVE Concat(_)
Concat(seqs) == IF seqs = <<>> THEN <<>> ELSE Head(seqs) \o Concat(Tail(seqs))

-----------------------------------------------------------------------------
(* Constant tables of graph_from_ascii.                                    *)

(* The table with the offsets of the two diagonals exchanged.              *)
EDGE_CHAR_NEIGHBOURS_diagonals_swapped(char) ==
    CASE char = "-"  -> <<Point(-1, 0), Point(1, 0)>>
      [] char = "\\" -> <<Point(1, -1), Point(-1, 1)>>
      [] char = "/"  -> <<Point(-1, -1), Point(1, 1)>>
      [] char = "|"  -> <<Point(0, -1), Point(0, 1)>>

EDGE_CHAR_NEIGHBOURS(char) ==
    CASE char = "-"  -> <<Point(-1, 0), Point(1, 0)>>
      [] char = "\\" -> <<Point(-1, -1), Point(1, 1)>>
      [] char = "/"  -> <<Point(1, -1), Point(-1, 1)>>
      [] char = "|"  -> <<Point(0, -1), Point(0, 1)>>

EDGE_CHARS == {"\\", "-", "/", "|"}

(* The character class [0-9A-Za-z_{}] of node_iter's pattern.              *)
TokenChars ==
    {"0", "1", "2", "3", "4", "5", "6", "7", "8", "9",
     "A", "B", "C", "D", "E", "F", "G", "H", "I", "J", "K", "L", "M",
     "N", "O", "P", "Q", "R", "S", "T", "U", "V", "W", "X", "Y", "Z",
     "a", "b", "c", "d", "e", "f", "g", "h", "i", "j", "k", "l", "m",
     "n", "o", "p", "q", "r", "s", "t", "u", "v", "w", "x", "y", "z",
     "_", "{", "}"}

-----------------------------------------------------------------------------
(* char_iter, node_iter, char_map, map_text_chars_to_text                  *)

(* char_iter: every position of the text with its character.              *)
char_iter(rows) ==
    LET positions == UNION {{Point(col - 1, row - 1) : col \in 1..Len(rows[row])} :
                                row \in 1..Len(rows)}
    IN  [p \in positions |-> rows[p.y + 1][p.x + 1]]

(* The last index of the run of token characters that starts at index i of *)
(* the line (i - 1 when line[i] is no token character).                    *)
BodyEnd(line, i) ==
    CHOOSE j \in (i - 1)..Len(line) :
        /\ \A k \in i..j : line[k] \in TokenChars
        /\ (j = Len(line) \/ line[j + 1] \notin TokenChars)

(* The last index of the match of \(?([0-9A-Za-z_{}]+)\)? at index i, or 0 *)
(* when the pattern does not match there.                                  *)
MatchEnd(line, i) ==
    LET start == IF line[i] = "(" THEN i + 1 ELSE i
        body  == IF start > Len(line) THEN start - 1 ELSE BodyEnd(line, start)
    IN  IF body < start THEN 0
        ELSE IF body < Len(line) /\ line[body + 1] = ")" THEN body + 1
        ELSE body

(* re.finditer over one line: the non-overlapping matches, left to right.  *)
RECURSIVE LineMatches(_, _, _)
LineMatches(line, row, i) ==
    IF i > Len(line) THEN <<>>
    ELSE LET e == MatchEnd(line, i)
         IN  IF e = 0 THEN LineMatches(line, row, i + 1)
             ELSE <<[text |-> SubSeq(line, i, e), pos |-> Point(i - 1, row)]>>
                    \o LineMatches(line, row, e + 1)

(* node_iter: the (text, root position) tokens in row-major scan order.    *)
node_iter(rows) ==
    Concat([row \in 1..Len(rows) |-> LineMatches(rows[row], row - 1, 1)])

(* char_map: the position of each character of text.                       *)
char_map(text, root_position) ==
    [p \in {Point(root_position.x + (i - 1), root_position.y) : i \in 1..Len(text)}
        |-> text[p.x - root_position.x + 1]]

(* The keys of char_map in its insertion order.                            *)
char_map_keys(text, root_position) ==
    [i \in 1..Len(text) |-> Point(root_position.x + (i - 1), root_position.y)]

(* map_text_chars_to_text: every cell of a text element to the element.    *)
RECURSIVE map_text_chars_to_text(_)
map_text_chars_to_text(text_items) ==
    IF text_items = <<>> THEN EmptyMap
    ELSE LET rest == map_text_chars_to_text(Tail(text_items))
             item == Head(text_items)
             here == [p \in DOMAIN char_map(item.text, item.pos) |-> item.text]
         IN  \* a later element overwrites an earlier one at a shared cell
             Update(here, rest)

-----------------------------------------------------------------------------
(* The first and second pass of graph_from_ascii.                          *)

IsLabelToken(ascii_label) ==
    ascii_label[1] = "(" /\ ascii_label[Len(ascii_label)] = ")"

(* First pass: the edge characters of the text.                            *)
FirstPassEdgeChars(rows) ==
    LET all == char_iter(rows)
    IN  [p \in {q \in DOMAIN all : all[q] \in EDGE_CHARS} |-> all[p]]

LabelTokens(rows) == SelectSeq(node_iter(rows), LAMBDA t : IsLabelToken(t.text))

NodeTokens(rows) == SelectSeq(node_iter(rows), LAMBDA t : ~IsLabelToken(t.text))

(* nodes: root position and name of every node token, in scan order.       *)
nodes(rows) == NodeTokens(rows)

(* labels: the label's content, rooted one cell right of its "(".          *)
labels(rows) ==
    LET toks == LabelTokens(rows)
    IN  [i \in 1..Len(toks) |->
            [text |-> SubSeq(toks[i].text, 2, Len(toks[i].text) - 1),
             pos  |-> PointAdd(toks[i].pos, Point(1, 0))]]

(* label_chars: every cell of every label token (parentheses included),    *)
(* as the sequence of its items in insertion order.                        *)
label_chars(rows) ==
    LET toks == LabelTokens(rows)
    IN  Concat([i \in 1..Len(toks) |->
            [k \in 1..Len(toks[i].text) |->
                [pos  |-> char_map_keys(toks[i].text, toks[i].pos)[k],
                 char |-> toks[i].text[k]]]])

node_char_to_node(rows) == map_text_chars_to_text(nodes(rows))

label_char_to_label(rows) == map_text_chars_to_text(labels(rows))

(* node_chars has the keys of node_char_to_node.                           *)
node_chars(rows) == DOMAIN node_char_to_node(rows)

(* The items of label_char_to_label in insertion order.                    *)
label_char_items(rows) ==
    LET ls == labels(rows)
    IN  Concat([i \in 1..Len(ls) |->
            [k \in 1..Len(ls[i].text) |->
                [pos  |-> char_map_keys(ls[i].text, ls[i].pos)[k],
                 text |-> ls[i].text]]])

-----------------------------------------------------------------------------
(* Third pass: the label patcher (one label character per step).           *)

(* `left` after the step: assigned only under a "(" character.  It is a    *)
(* one-element sequence once bound, empty while unbound.                   *)
LeftAfter(lft, item) ==
    IF item.char = "(" THEN <<PointAdd(item.pos, Point(-1, 0))>> ELSE lft

(* The patcher with the "(" branch looking right, as the ")" branch does,  *)
(* instead of left.                                                        *)
PatchGlyph_open_looks_right(ec, item, lft) ==
    LET position == item.pos
        above == PointAdd(position, Point(0, -1))
        below == PointAdd(position, Point(0, 1))
        right == PointAdd(position, Point(1, 0))
    IN  IF item.char = "("
        THEN IF Get(ec, right, "") = "-" THEN "-" ELSE ""
        ELSE IF item.char = ")"
        THEN IF Get(ec, right, "") = "-" THEN "-" ELSE ""
        ELSE IF Get(ec, above, "") = "|" /\ Get(ec, below, "") = "|"
        THEN "|"
        ELSE IF Get(ec, lft[1], "") = "-" THEN "-" ELSE ""

(* The glyph patched in at a label character, "" when the cell is left     *)
(* alone; lft is `left` as the step finds it.                              *)
PatchGlyph(ec, item, lft) ==
    LET position == item.pos
        above == PointAdd(position, Point(0, -1))
        below == PointAdd(position, Point(0, 1))
        right == PointAdd(position, Point(1, 0))
    IN  IF item.char = "("
        THEN IF Get(ec, PointAdd(position, Point(-1, 0)), "") = "-" THEN "-" ELSE ""
        ELSE IF item.char = ")"
        THEN IF Get(ec, right, "") = "-" THEN "-" ELSE ""
        ELSE IF Get(ec, above, "") = "|" /\ Get(ec, below, "") = "|"
        THEN "|"
        ELSE IF Get(ec, lft[1], "") = "-" THEN "-" ELSE ""

(* The last branch reads `left`, which is unbound until a "(" was seen.    *)
ReadsUnboundLeft(ec, item, lft) ==
    /\ item.char \notin {"(", ")"}
    /\ ~(Get(ec, PointAdd(item.pos, Point(0, -1)), "") = "|"
         /\ Get(ec, PointAdd(item.pos, Point(0, 1)), "") = "|")
    /\ lft = <<>>

PatchLabelChar ==
    /\ pc = "patch"
    /\ patch_i <= Len(label_chars(network_string))
    /\ LET item == label_chars(network_string)[patch_i]
       IN  IF ReadsUnboundLeft(edge_chars, item, left)
           THEN /\ result' = "UnboundLocalError"
                /\ pc' = "done"
                /\ UNCHANGED <<edge_chars, left, patch_i>>
           ELSE /\ left' = LeftAfter(left, item)
                /\ edge_chars' =
                     LET glyph == PatchGlyph(edge_chars, item, left)
                     IN  IF glyph = "" THEN edge_chars
                         ELSE Put(edge_chars, item.pos, glyph)
                /\ patch_i' = patch_i + 1
                /\ UNCHANGED <<result, pc>>
    /\ UNCHANGED <<scenario, network_string, edge_order, trace_i,
                   edge_char_to_edge_map, edges, check_i, graph_edges,
                   length_attr, label_attr, raised_edge>>

(* sorted(edge_chars.items()): the positions in Point.__lt__ order.        *)
RECURSIVE SortedPoints(_)
SortedPoints(points) ==
    IF points = {} THEN <<>>
    ELSE LET first == CHOOSE p \in points :
                          \A q \in points \ {p} : PointLt(p, q)
         IN  <<first>> \o SortedPoints(points \ {first})

SortEdgeChars ==
    /\ pc = "patch"
    /\ patch_i > Len(label_chars(network_string))
    /\ edge_order' = SortedPoints(DOMAIN edge_chars)
    /\ pc' = "trace"
    /\ UNCHANGED <<scenario, network_string, edge_chars, left, patch_i, trace_i,
                   edge_char_to_edge_map, edges, check_i, graph_edges,
                   length_attr, label_attr, result, raised_edge>>

-----------------------------------------------------------------------------
(* The tracing loop (one edge character per step).                         *)

AppendPoint(es, index, pos) ==
    [es EXCEPT ![index].points = Append(@, pos)]

(* Lines 83-88: pos joins the edge of its trailing neighbour, or starts a  *)
(* new edge.  The result is the pair of the map and the edge list.         *)
ClaimPosition(map, es, pos, neighbor) ==
    IF neighbor \in DOMAIN map
    THEN <<Put(map, pos, map[neighbor]), AppendPoint(es, map[neighbor], pos)>>
    ELSE <<Put(map, pos, Len(es) + 1),
           Append(es, [points |-> <<pos>>, nodes |-> <<>>])>>

(* The look-ahead without its test that the neighbour is still unclaimed.  *)
LooksAhead_unguarded(map, ec, neighbor_2) == neighbor_2 \in DOMAIN ec

(* Lines 92-95: whether the leading neighbour is claimed ahead of time.    *)
LooksAhead(map, ec, neighbor_2) ==
    neighbor_2 \notin DOMAIN map /\ neighbor_2 \in DOMAIN ec

(* Lines 99-103: the nodes abutting pos along its glyph's direction.       *)
neighboring_nodes(rows, pos, char) ==
    LET offsets == EDGE_CHAR_NEIGHBOURS(char)
    IN  Concat([i \in 1..Len(offsets) |->
            IF PointAdd(pos, offsets[i]) \in node_chars(rows)
            THEN <<node_char_to_node(rows)[PointAdd(pos, offsets[i])]>>
            ELSE <<>>])

TraceEdgeChar ==
    /\ pc = "trace"
    /\ trace_i <= Len(edge_order)
    /\ LET pos == edge_order[trace_i]
           char == edge_chars[pos]
           neighbor == PointAdd(pos, EDGE_CHAR_NEIGHBOURS(char)[1])
           neighbor_2 == PointAdd(pos, EDGE_CHAR_NEIGHBOURS(char)[2])
           fresh == pos \notin DOMAIN edge_char_to_edge_map
           claimed == IF fresh
                      THEN ClaimPosition(edge_char_to_edge_map, edges, pos, neighbor)
                      ELSE <<edge_char_to_edge_map, edges>>
           ahead == fresh /\ LooksAhead(claimed[1], edge_chars, neighbor_2)
           map2 == IF ahead THEN Put(claimed[1], neighbor_2, claimed[1][pos])
                   ELSE claimed[1]
           edges2 == IF ahead THEN AppendPoint(claimed[2], claimed[1][pos], neighbor_2)
                     ELSE claimed[2]
       IN  /\ edge_char_to_edge_map' = map2
           /\ edges' = [edges2 EXCEPT ![map2[pos]].nodes =
                            @ \o neighboring_nodes(network_string, pos, char)]
    /\ trace_i' = trace_i + 1
    /\ UNCHANGED <<scenario, network_string, pc, edge_chars, left, patch_i,
                   edge_order, check_i, graph_edges, length_attr, label_attr,
                   result, raised_edge>>

TraceDone ==
    /\ pc = "trace"
    /\ trace_i > Len(edge_order)
    /\ pc' = "assemble"
    /\ UNCHANGED <<scenario, network_string, edge_chars, left, patch_i,
                   edge_order, trace_i, edge_char_to_edge_map, edges, check_i,
                   graph_edges, length_attr, label_attr, result, raised_edge>>

-----------------------------------------------------------------------------
(* The assembly of the graph.                                              *)

NoEdge == [points |-> <<>>, nodes |-> <<>>]

(* Lines 112-117: the outcome of validating one traced edge.               *)
EdgeVerdict(edge) ==
    IF Len(edge.nodes) > 2 THEN "TooManyNodesOnEdge"
    ELSE IF Len(edge.nodes) < 2 THEN "TooFewNodesOnEdge"
    ELSE "add_edge"

(* The position named in the message of either exception.                  *)
ErrorPosition(edge) == edge.points[1]

ValidateEdge ==
    /\ pc = "assemble"
    /\ check_i <= Len(edges)
    /\ LET edge == edges[check_i]
       IN  IF EdgeVerdict(edge) = "add_edge"
           THEN /\ graph_edges' = Append(graph_edges, edge.nodes)
                /\ check_i' = check_i + 1
                /\ UNCHANGED <<pc, result, raised_edge>>
           ELSE /\ result' = EdgeVerdict(edge)
                /\ raised_edge' = edge
                /\ pc' = "done"
                /\ UNCHANGED <<graph_edges, check_i>>
    /\ UNCHANGED <<scenario, network_string, edge_chars, left, patch_i,
                   edge_order, trace_i, edge_char_to_edge_map, edges,
                   length_attr, label_attr>>

(* Lines 118-121: {tuple(edge["nodes"]): len(edge["points"]) ...}; a later *)
(* edge with the same node tuple overwrites an earlier one.                *)
RECURSIVE LengthValues(_)
LengthValues(es) ==
    IF es = <<>> THEN [t \in {} |-> 0]
    ELSE LET last == es[Len(es)]
             rest == LengthValues(SubSeq(es, 1, Len(es) - 1))
         IN  IF last.nodes = <<>> THEN rest
             ELSE Put(rest, last.nodes, Len(last.points))

(* Lines 124-128: {tuple(edge_char_to_edge_map[pos]["nodes"]): label ...}  *)
(* over the cells of the labels' contents that an edge claimed.            *)
RECURSIVE LabelValues(_, _, _)
LabelValues(items, map, es) ==
    IF items = <<>> THEN [t \in {} |-> <<>>]
    ELSE LET last == items[Len(items)]
             rest == LabelValues(SubSeq(items, 1, Len(items) - 1), map, es)
         IN  IF last.pos \notin DOMAIN map THEN rest
             ELSE Put(rest, es[map[last.pos]].nodes, last.text)

(* Lines 107-110: the nodes handed to add_nodes_from.                      *)
graph_nodes(rows) == {nodes(rows)[i].text : i \in 1..Len(nodes(rows))}

ReturnGraph ==
    /\ pc = "assemble"
    /\ check_i > Len(edges)
    /\ length_attr' = LengthValues(edges)
    /\ label_attr' = LabelValues(label_char_items(network_string),
                                 edge_char_to_edge_map, edges)
    /\ result' = "graph"
    /\ pc' = "done"
    /\ UNCHANGED <<scenario, network_string, edge_chars, left, patch_i,
                   edge_order, trace_i, edge_char_to_edge_map, edges, check_i,
                   graph_edges, raised_edge>>

-----------------------------------------------------------------------------
(* The drawings the input is taken from.  A drawing is a set of texts,     *)
(* each placed at a position; Grid lays them out on rows of spaces.        *)

Max(S) == CHOOSE m \in S : \A n \in S : n <= m

Item(text, x, y) == [text |-> text, pos |-> Point(x, y)]

Glyphs(char, n) == [i \in 1..n |-> char]

Grid(items) ==
    LET height == Max({it.pos.y : it \in items}) + 1
        width(y) == Max({0} \cup {it.pos.x + Len(it.text) :
                                    it \in {i \in items : i.pos.y = y}})
        covers(it, x, y) == it.pos.y = y /\ it.pos.x <= x /\ x < it.pos.x + Len(it.text)
        charAt(x, y) ==
            IF \E it \in items : covers(it, x, y)
            THEN LET it == CHOOSE i \in items : covers(i, x, y)
                 IN  it.text[x - it.pos.x + 1]
            ELSE " "
    IN  [row \in 1..height |-> [col \in 1..width(row - 1) |-> charAt(col - 1, row - 1)]]

Shift(items, dy) == {Item(it.text, it.pos.x, it.pos.y + dy) : it \in items}

Names == {<<"n", "1">>, <<"n", "2">>, <<"b">>}

NamePairs == {pair \in Names \X Names : pair[1] # pair[2]}

LabelText(len) == SubSeq(<<"c", "o", "s", "t", "x", "y", "z">>, 1, len)

Column == 2 * MaxRun + 3

Scenario(kind, glyph, a, c, b, A, B, ka, kb, label, cell, variant) ==
    [kind |-> kind, glyph |-> glyph, a |-> a, c |-> c, b |-> b, A |-> A, B |-> B,
     ka |-> ka, kb |-> kb, label |-> label, cell |-> cell, variant |-> variant]

(* A straight run of sc.a glyphs along the glyph's own direction; node A   *)
(* abuts its first glyph with its character ka, node B its last glyph with *)
(* its character kb.                                                       *)
RunCells(glyph, n) ==
    CASE glyph = "-"  -> [i \in 1..n |-> Point(Column + i - 1, 1)]
      [] glyph = "|"  -> [i \in 1..n |-> Point(Column, i)]
      [] glyph = "\\" -> [i \in 1..n |-> Point(Column + i - 1, i)]
      [] glyph = "/"  -> [i \in 1..n |-> Point(Column - i + 1, i)]

(* The cell before the first glyph of the run and the cell after its last, *)
(* along the direction the glyph is drawn in.                              *)
CellBefore(glyph) ==
    LET first == RunCells(glyph, 1)[1]
    IN  CASE glyph = "-"  -> Point(first.x - 1, first.y)
          [] glyph = "|"  -> Point(first.x, first.y - 1)
          [] glyph = "\\" -> Point(first.x - 1, first.y - 1)
          [] glyph = "/"  -> Point(first.x + 1, first.y - 1)

CellAfter(glyph, n) ==
    LET last == RunCells(glyph, n)[n]
    IN  CASE glyph = "-"  -> Point(last.x + 1, last.y)
          [] glyph = "|"  -> Point(last.x, last.y + 1)
          [] glyph = "\\" -> Point(last.x + 1, last.y + 1)
          [] glyph = "/"  -> Point(last.x - 1, last.y + 1)

RunItems(glyph, n) ==
    {Item(<<glyph>>, RunCells(glyph, n)[i].x, RunCells(glyph, n)[i].y) : i \in 1..n}

FirstNodeItem(sc) ==
    LET cell == CellBefore(sc.glyph)
    IN  Item(sc.A, cell.x - sc.ka, cell.y)

LastNodeItem(sc) ==
    LET cell == CellAfter(sc.glyph, sc.a)
    IN  Item(sc.B, cell.x - sc.kb, cell.y)

StraightItems(sc) ==
    RunItems(sc.glyph, sc.a) \cup {FirstNodeItem(sc), LastNodeItem(sc)}

AbutOK(glyph, A, B, ka, kb) ==
    /\ ka \in 0..(Len(A) - 1)
    /\ kb \in 0..(Len(B) - 1)
    /\ glyph = "-" => (ka = Len(A) - 1 /\ kb = 0)

StraightScenarios ==
    {Scenario("straight", g, n, 0, 0, pair[1], pair[2], ka, kb, <<>>, 0, "") :
        <<g, n, pair, ka, kb>> \in
            {t \in EDGE_CHARS \X (1..MaxRun) \X NamePairs \X (0..1) \X (0..1) :
                AbutOK(t[1], t[3][1], t[3][2], t[4], t[5])}}

(* A one-row line A, a dashes, (label), b dashes, B.                       *)
LabelledItems(sc) ==
    LET text == Glyphs("-", sc.a) \o <<"(">> \o sc.label \o <<")">> \o Glyphs("-", sc.b)
    IN  {Item(sc.A \o text \o sc.B, 0, 0)}

LabelledScenarios ==
    {Scenario("labelled", "-", a, 0, b, pair[1], pair[2], 0, 0, LabelText(len), 0, "") :
        <<a, b, len, pair>> \in (1..MaxRun) \X (1..MaxRun) \X (1..MaxLabel) \X NamePairs}

(* A vertical line from A down to B that crosses the label (label) at the  *)
(* cell sc.cell of its literal span (0 is the "(").                        *)
VerticalLabelItems(sc) ==
    {Item(sc.A, Column, 0),
     Item(<<"(">> \o sc.label \o <<")">>, Column - sc.cell, sc.a + 1),
     Item(sc.B, Column, sc.a + sc.b + 2)}
    \cup {Item(<<"|">>, Column, y) : y \in (1..sc.a) \cup ((sc.a + 2)..(sc.a + sc.b + 1))}

VerticalLabelScenarios ==
    {Scenario("vertical_label", "|", a, 0, b, pair[1], pair[2], 0, 0, LabelText(len), cell, "") :
        <<a, b, len, cell, pair>> \in
            {t \in (1..MaxArm) \X (1..MaxArm) \X (1..MaxLabel) \X (0..(MaxLabel + 1)) \X NamePairs :
                t[4] <= t[3] + 1}}

(* A run of sc.a dashes on the upper row, a corner of sc.c glyphs, a run   *)
(* of sc.b dashes on the lower row; A ends the upper run, B the lower one. *)
(* With "\" the upper run is on the left, with "/" on the right.           *)
CornerItems(sc) ==
    LET top == 0
        bottom == sc.c + 1
    IN  IF sc.glyph = "\\"
        THEN {Item(sc.A \o Glyphs("-", sc.a), Column - sc.a - Len(sc.A), top),
              Item(Glyphs("-", sc.b) \o sc.B, Column + sc.c, bottom)}
             \cup {Item(<<"\\">>, Column + i - 1, i) : i \in 1..sc.c}
        ELSE {Item(Glyphs("-", sc.a) \o sc.A, Column + 1, top),
              Item(sc.B \o Glyphs("-", sc.b), Column - sc.c - sc.b - Len(sc.B) + 1, bottom)}
             \cup {Item(<<"/">>, Column - i + 1, i) : i \in 1..sc.c}

CornerScenarios ==
    {Scenario("corner", g, a, c, b, pair[1], pair[2], 0, 0, <<>>, 0, "") :
        <<g, a, c, b, pair>> \in
            {"\\", "/"} \X (1..MaxRun) \X (1..MaxArm) \X (1..MaxRun) \X NamePairs}

(* A straight run with a node at one end only: variant names the end that  *)
(* is open; cell says what else is drawn: nothing (0); a valid line x-y    *)
(* above (1) or below (2) the dangling one; a bar that leaves the first    *)
(* dash of the run downwards and ends at node t (3); a line x-y with a bar *)
(* from its dash down to node z, above the dangling one (4).               *)
DanglingItems(sc) ==
    LET line == RunItems(sc.glyph, sc.a)
                    \cup (IF sc.variant = "open_last" THEN {FirstNodeItem(sc)}
                          ELSE {LastNodeItem(sc)})
        other == Item(<<"x", "-", "y">>, 0, 0)
        first == RunCells(sc.glyph, sc.a)[1]
    IN  CASE sc.cell = 0 -> line
          [] sc.cell = 1 -> Shift(line, 2) \cup {other}
          [] sc.cell = 2 -> line \cup Shift({other}, sc.a + 3)
          [] sc.cell = 3 -> line \cup {Item(<<"|">>, first.x, first.y + 1),
                                       Item(<<"t">>, first.x, first.y + 2)}
          [] sc.cell = 4 -> Shift(line, 4)
                                \cup {other, Item(<<"|">>, 1, 1), Item(<<"z">>, 1, 2)}

DanglingScenarios ==
    {Scenario("dangling", g, n, 0, 0, A, A, Len(A) - 1, 0, <<>>, cell, variant) :
        <<g, n, A, cell, variant>> \in
            {t \in EDGE_CHARS \X (1..MaxRun) \X Names \X (0..4) \X {"open_first", "open_last"} :
                t[4] = 3 => (t[1] = "-" /\ t[2] >= 2 /\ t[5] = "open_last")}}

(* A horizontal line n1 ... n2 with sc.a dashes left and sc.b dashes right *)
(* of a junction dash, and a vertical arm of sc.c bars that leaves the     *)
(* junction downwards or upwards and ends at n3 ("branch") or in the open  *)
(* ("stub").                                                               *)
BranchItems(sc) ==
    LET up == sc.variant = "up"
        row == IF up THEN sc.c + 1 ELSE 0
        arm == {Item(<<"|">>, Column, IF up THEN y ELSE row + y) : y \in 1..sc.c}
        third == Item(<<"n", "3">>, Column, IF up THEN 0 ELSE sc.c + 1)
    IN  {Item(<<"n", "1">> \o Glyphs("-", sc.a + 1 + sc.b) \o <<"n", "2">>,
              Column - sc.a - 2, row)}
        \cup arm \cup (IF sc.kind = "branch" THEN {third} ELSE {})

BranchScenarios ==
    {Scenario(kind, "-", a, c, b, <<"n", "1">>, <<"n", "2">>, 0, 0, <<>>, 0, variant) :
        <<kind, a, c, b, variant>> \in
            {"branch", "stub"} \X (0..MaxArm) \X (1..MaxArm) \X (0..MaxArm) \X {"down", "up"}}

Scenarios ==
    StraightScenarios \cup LabelledScenarios \cup VerticalLabelScenarios
        \cup CornerScenarios \cup DanglingScenarios \cup BranchScenarios

Draw(sc) ==
    Grid(CASE sc.kind = "straight" -> StraightItems(sc)
           [] sc.kind = "labelled" -> LabelledItems(sc)
           [] sc.kind = "vertical_label" -> VerticalLabelItems(sc)
           [] sc.kind = "corner" -> CornerItems(sc)
           [] sc.kind = "dangling" -> DanglingItems(sc)
           [] sc.kind \in {"branch", "stub"} -> BranchItems(sc))

-----------------------------------------------------------------------------
(* The state machine.                                                      *)

Init ==
    /\ scenario \in Scenarios
    /\ network_string = Draw(scenario)
    /\ pc = "patch"
    /\ edge_chars = FirstPassEdgeChars(network_string)
    /\ left = <<>>
    /\ patch_i = 1
    /\ edge_order = <<>>
    /\ trace_i = 1
    /\ edge_char_to_edge_map = [p \in {} |-> 0]
    /\ edges = <<>>
    /\ check_i = 1
    /\ graph_edges = <<>>
    /\ length_attr = [t \in {} |-> 0]
    /\ label_attr = [t \in {} |-> <<>>]
    /\ result = "none"
    /\ raised_edge = NoEdge

Next ==
    \/ PatchLabelChar
    \/ SortEdgeChars
    \/ TraceEdgeChar
    \/ TraceDone
    \/ ValidateEdge
    \/ ReturnGraph

Spec == Init /\ [][Next]_vars

-----------------------------------------------------------------------------
(* Notions the properties are stated with.                                 *)

Done == pc = "done"

Returned == Done /\ result = "graph"

Raised == Done /\ result \in {"TooFewNodesOnEdge", "TooManyNodesOnEdge"}

(* The graph holds exactly one edge, between A and B (in either order).    *)
SingleEdgeBetween(A, B) ==
    /\ Len(graph_edges) = 1
    /\ graph_edges[1] \in {<<A, B>>, <<B, A>>}
    /\ DOMAIN length_attr = {graph_edges[1]}

(* Characters in code point order, and the order of str on names.          *)
CodePointOrder ==
    <<"(", ")",
      "0", "1", "2", "3", "4", "5", "6", "7", "8", "9",
      "A", "B", "C", "D", "E", "F", "G", "H", "I", "J", "K", "L", "M",
      "N", "O", "P", "Q", "R", "S", "T", "U", "V", "W", "X", "Y", "Z", "_",
      "a", "b", "c", "d", "e", "f", "g", "h", "i", "j", "k", "l", "m",
      "n", "o", "p", "q", "r", "s", "t", "u", "v", "w", "x", "y", "z",
      "{", "}">>

CodePoint(char) == CHOOSE i \in 1..Len(CodePointOrder) : CodePointOrder[i] = char

RECURSIVE NameLess(_, _)
NameLess(s, t) ==
    IF t = <<>> THEN FALSE
    ELSE IF s = <<>> THEN TRUE
    ELSE IF Head(s) = Head(t) THEN NameLess(Tail(s), Tail(t))
    ELSE CodePoint(Head(s)) < CodePoint(Head(t))

(* The neighbours of an edge character: the cells its own glyph points at  *)
(* that hold an edge or node character, and the adjacent edge characters   *)
(* whose glyph points back at it.                                          *)
Offsets(char) == {EDGE_CHAR_NEIGHBOURS(char)[1], EDGE_CHAR_NEIGHBOURS(char)[2]}

Neighbours(p) ==
    {PointAdd(p, d) : d \in {o \in Offsets(edge_chars[p]) :
        PointAdd(p, o) \in DOMAIN edge_chars \cup node_chars(network_string)}}
    \cup {q \in DOMAIN edge_chars : \E d \in Offsets(edge_chars[q]) : PointAdd(q, d) = p}

RECURSIVE PointsClaimed(_)
PointsClaimed(es) ==
    IF es = <<>> THEN 0 ELSE Len(Head(es).points) + PointsClaimed(Tail(es))

(* The places (edge index, list index) a position holds in the points      *)
(* lists of the edges.                                                     *)
PlacesOf(p) ==
    UNION {{<<i, k>> : k \in {n \in 1..Len(edges[i].points) : edges[i].points[n] = p}} :
                i \in 1..Len(edges)}

(* Where the drawing of a dangling line has its open end, and where the    *)
(* drawing of a branch has its junction.                                   *)
OpenEndGlyph(sc) ==
    LET cells == RunCells(sc.glyph, sc.a)
        cell == IF sc.variant = "open_last" THEN cells[sc.a] ELSE cells[1]
        down == CASE sc.cell = 1 -> 2 [] sc.cell = 4 -> 4 [] OTHER -> 0
    IN  Point(cell.x, cell.y + down)

(* A drawing contains a dangling line when some edge character is an open  *)
(* end (a cell its glyph points at is empty and it has fewer than two      *)
(* neighbours) and the line it lies on, followed from neighbour to         *)
(* neighbour, has a glyph that abuts a node.                               *)
AbutsNode(p) ==
    \E d \in Offsets(edge_chars[p]) : PointAdd(p, d) \in node_chars(network_string)

OpenEnded(p) ==
    /\ \E d \in Offsets(edge_chars[p]) :
            PointAdd(p, d) \notin DOMAIN edge_chars \cup node_chars(network_string)
    /\ Cardinality(Neighbours(p)) < 2

RECURSIVE LineThrough(_)
LineThrough(S) ==
    LET T == S \cup {q \in DOMAIN edge_chars : \E p \in S : q \in Neighbours(p)}
    IN  IF T = S THEN S ELSE LineThrough(T)

HasDanglingLine ==
    \E p \in DOMAIN edge_chars :
        OpenEnded(p) /\ \E q \in LineThrough({p}) : AbutsNode(q)

JunctionGlyph(sc) == Point(Column, IF sc.variant = "up" THEN sc.c + 1 ELSE 0)

-----------------------------------------------------------------------------
(* The properties.                                                         *)

(* C1: two distinctly named nodes joined by a straight run of n >= 1       *)
(* copies of a glyph along the glyph's own direction give a graph with     *)
(* exactly those two nodes and exactly one edge between them, of length n  *)
(* and without a label.                                                    *)
C1_StraightRunIsOneEdge ==
    (scenario.kind = "straight" /\ Done) =>
        /\ result = "graph"
        /\ graph_nodes(network_string) = {scenario.A, scenario.B}
        /\ SingleEdgeBetween(scenario.A, scenario.B)
        /\ length_attr[graph_edges[1]] = scenario.a
        /\ DOMAIN label_attr = {}

C1_Witness ==
    /\ scenario.kind = "straight" /\ Returned
    /\ scenario.glyph = "/" /\ scenario.a = MaxRun
    /\ Len(edges) = 1 /\ Len(edges[1].points) = MaxRun

(* C2: the one-row line A, i dashes, (L), j dashes, B gives exactly one    *)
(* edge between A and B, labelled L, of length i + j + len(L) + 2.         *)
C2_LabelledRunCountsLabelSpan ==
    (scenario.kind = "labelled" /\ Done) =>
        /\ result = "graph"
        /\ SingleEdgeBetween(scenario.A, scenario.B)
        /\ DOMAIN label_attr = {graph_edges[1]}
        /\ label_attr[graph_edges[1]] = scenario.label
        /\ length_attr[graph_edges[1]] = scenario.a + scenario.b + Len(scenario.label) + 2

C2_Witness ==
    /\ scenario.kind = "labelled" /\ Returned
    /\ Len(scenario.label) = MaxLabel /\ scenario.a = 1 /\ scenario.b = MaxRun
    /\ label_attr[graph_edges[1]] = scenario.label
    /\ Cardinality(DOMAIN edge_chars) = MaxRun + MaxLabel + 3

(* C3: a vertical line from A down to B that crosses a label (L) at any    *)
(* cell of its literal span, the parentheses included, has `|` injected at *)
(* that cell and gives a single edge between A and B labelled L.           *)
C3_VerticalLabelAtAnyCell ==
    (scenario.kind = "vertical_label" /\ Done) =>
        /\ Get(edge_chars, Point(Column, scenario.a + 1), "") = "|"
        /\ result = "graph"
        /\ SingleEdgeBetween(scenario.A, scenario.B)
        /\ graph_edges[1] \in DOMAIN label_attr
        /\ label_attr[graph_edges[1]] = scenario.label

(* C4: an L-shaped path of a dashes, a corner of c glyphs that are all `/` *)
(* or all `\`, and b dashes on another row gives a single edge of length   *)
(* a + c + b, whatever the glyph, the direction and the run lengths.       *)
C4_CornerIsOneEdge ==
    (scenario.kind = "corner" /\ Done) =>
        /\ result = "graph"
        /\ SingleEdgeBetween(scenario.A, scenario.B)
        /\ length_attr[graph_edges[1]] = scenario.a + scenario.c + scenario.b

(* C5: every diagram that contains a line with one end abutting a node and *)
(* the other end open raises TooFewNodesOnEdge, and no graph is returned.  *)
C5_DanglingLineRaisesTooFew ==
    (Done /\ HasDanglingLine) =>
        /\ result = "TooFewNodesOnEdge"
        /\ DOMAIN length_attr = {} /\ DOMAIN label_attr = {}

(* C6: three line segments, each ending at its own node, that meet at one  *)
(* glyph raise TooManyNodesOnEdge, whatever their orientation and wherever *)
(* the junction lies in row-major order.                                   *)
C6_BranchRaisesTooMany ==
    (scenario.kind = "branch" /\ Done) => result = "TooManyNodesOnEdge"

(* C7: every emitted edge has the lexicographically smaller node name      *)
(* first.                                                                  *)
C7_EdgeNodesAreSorted ==
    \A i \in 1..Len(graph_edges) :
        NameLess(graph_edges[i][1], graph_edges[i][2])

(* C8: when a graph is returned, every position of the patched             *)
(* edge-character map has exactly two distinct neighbours.                 *)
C8_AcceptedMeansTwoNeighbours ==
    Returned => \A p \in DOMAIN edge_chars : Cardinality(Neighbours(p)) = 2

(* C9: the position carried by the failure is the position of the edge     *)
(* character at which the violation occurs: the open-ended glyph of a      *)
(* dangling line for too-few, the junction glyph of a branch for too-many. *)
C9_ErrorAtViolatingGlyph ==
    /\ (scenario.kind = "dangling" /\ Done /\ result = "TooFewNodesOnEdge")
            => ErrorPosition(raised_edge) = OpenEndGlyph(scenario)
    /\ (scenario.kind = "branch" /\ Done /\ result = "TooManyNodesOnEdge")
            => ErrorPosition(raised_edge) = JunctionGlyph(scenario)

(* C10: the tracing loop visits the edge characters in strictly increasing *)
(* row-major order; no position is ever in the points lists of two edges   *)
(* or twice in one; when the loop has ended every edge character is        *)
(* claimed by exactly one edge, and the lengths of the points lists add up *)
(* to the size of the edge-character map.                                  *)
C10_EveryEdgeCharClaimedOnce ==
    /\ \A i, j \in 1..Len(edge_order) : i < j => PointLt(edge_order[i], edge_order[j])
    /\ pc # "patch" => {edge_order[i] : i \in 1..Len(edge_order)} = DOMAIN edge_chars
    /\ \A p \in DOMAIN edge_chars : Cardinality(PlacesOf(p)) <= 1
    /\ \A p \in DOMAIN edge_char_to_edge_map :
            PlacesOf(p) # {} /\ \A place \in PlacesOf(p) : place[1] = edge_char_to_edge_map[p]
    /\ pc \in {"assemble", "done"} =>
            /\ \A p \in DOMAIN edge_chars : Cardinality(PlacesOf(p)) = 1
            /\ PointsClaimed(edges) = Cardinality(DOMAIN edge_chars)

C10_Witness ==
    /\ pc = "assemble" /\ Len(edges) = 2
    /\ scenario.kind = "corner" /\ scenario.glyph = "/" /\ scenario.b = MaxRun
    /\ PointsClaimed(edges) = scenario.a + scenario.b + scenario.c

====
